---- MODULE Spec2Model ----
(***************************************************************************)
(* Model of the crypto Provider facade of arweave-rs                       *)
(* (src/src/crypto/mod.rs).  The Provider optionally owns a Signer and     *)
(* exposes pure hashing (deep_hash, hash_sha256) next to key-bound         *)
(* operations (sign, keypair_modulus, wallet_address, public_key).         *)
(*                                                                         *)
(* The modules crypto::hash, crypto::sign and crate::verify are            *)
(* modelled from the specification.  Hash functions and signatures are     *)
(* symbolic: a digest or a signature is one cell of a byte string that     *)
(* records what it was computed from, so two digests are equal exactly     *)
(* when their pre-images are (the collision-free idealisation).            *)
(***************************************************************************)
EXTENDS Integers, Sequences, FiniteSets, TLC

(***************************************************************************)
(* Bounds of the model.                                                    *)
(***************************************************************************)
MaxBlobLen == 2
MaxChildLen == 1
MaxListLen == 2
MaxCalls == 2
NumContexts == 2

(***************************************************************************)
(* Program constants: the digest widths of the return types.               *)
(***************************************************************************)
Sha384Len == 48
Sha256Len == 32

(***************************************************************************)
(* Byte strings.  A byte string is a sequence of cells; a cell is a plain  *)
(* byte, or a symbolic digest / signature standing for a fixed number of   *)
(* bytes.  All cells have the same fields so that any two compare.         *)
(***************************************************************************)
Byte(n) == [kind |-> "byte", b |-> n, val |-> <<>>, aux |-> <<>>]

Bytes(s) == [i \in 1..Len(s) |-> Byte(s[i])]

RECURSIVE ByteLen(_)
ByteLen(bs) ==
  IF bs = <<>> THEN 0
  ELSE LET c == Head(bs)
           w == CASE c.kind = "byte" -> 1
                  [] c.kind = "sha384" -> Sha384Len
                  [] c.kind = "sha256" -> Sha256Len
                  [] c.kind = "sig" -> ByteLen(c.aux)
       IN w + ByteLen(Tail(bs))

\* usize::to_string: the ASCII decimal digits of n
RECURSIVE Decimal(_)
Decimal(n) ==
  IF n < 10 THEN <<Byte(48 + n)>>
  ELSE Decimal(n \div 10) \o <<Byte(48 + (n % 10))>>

\* big-endian bytes of an unsigned integer
RECURSIVE BigEndian(_)
BigEndian(n) ==
  IF n < 256 THEN <<Byte(n)>>
  ELSE BigEndian(n \div 256) \o <<Byte(n % 256)>>

AsciiBlob == Bytes(<<98, 108, 111, 98>>)
AsciiList == Bytes(<<108, 105, 115, 116>>)

(***************************************************************************)
(* Result<T, Error>.  val holds the value (a byte string, or a one-element *)
(* sequence holding a Provider); an Err carries no value.                  *)
(***************************************************************************)
Ok(v) == [ok |-> TRUE, val |-> v, err |-> <<>>]
Err(e) == [ok |-> FALSE, val |-> <<>>, err |-> e]

NoneError == <<"NoneError", "No private key present">>
KeyLoadError(path, cause) == <<"KeyLoadError", path, cause>>
VerifyError == <<"CryptoError", "invalid signature">>

(***************************************************************************)
(* crypto::hash                                                            *)
(***************************************************************************)
Blob(b) == [tag |-> "Blob", bytes |-> b, items |-> <<>>]
List(xs) == [tag |-> "List", bytes |-> <<>>, items |-> xs]

sha384(bs) == <<[kind |-> "sha384", b |-> 0, val |-> bs, aux |-> <<>>]>>
sha256(bs) == <<[kind |-> "sha256", b |-> 0, val |-> bs, aux |-> <<>>]>>

RECURSIVE deep_hash(_)
RECURSIVE hash_all_sha384(_, _)
deep_hash(item) ==
  IF item.tag = "Blob"
  THEN LET tag == AsciiBlob \o Decimal(ByteLen(item.bytes))
       IN sha384(sha384(tag) \o sha384(item.bytes))
  ELSE LET tag == AsciiList \o Decimal(Len(item.items))
       IN hash_all_sha384(item.items, sha384(tag))

hash_all_sha384(items, acc) ==
  IF items = <<>> THEN acc
  ELSE hash_all_sha384(Tail(items), sha384(acc \o deep_hash(Head(items))))

(***************************************************************************)
(* crypto::sign and crate::verify                                          *)
(***************************************************************************)
RECURSIVE Gcd(_, _)
Gcd(a, b) == IF b = 0 THEN a ELSE Gcd(b, a % b)
Lcm(a, b) == (a * b) \div Gcd(a, b)

\* The credential documents the file system may hold, by path.
Paths == {"res/test_wallet.json", "res/other_wallet.json", "res/missing.json",
          "res/malformed.json", "res/mismatch.json"}

Wallet(path) ==
  CASE path = "res/test_wallet.json" ->
         [present |-> TRUE, wellformed |-> TRUE,
          n |-> 3233, e |-> 17, d |-> 2753, p |-> 61, q |-> 53]
    [] path = "res/other_wallet.json" ->
         [present |-> TRUE, wellformed |-> TRUE,
          n |-> 2773, e |-> 17, d |-> 157, p |-> 47, q |-> 59]
    [] path = "res/missing.json" ->
         [present |-> FALSE, wellformed |-> FALSE,
          n |-> 0, e |-> 0, d |-> 0, p |-> 0, q |-> 0]
    [] path = "res/malformed.json" ->
         [present |-> TRUE, wellformed |-> FALSE,
          n |-> 0, e |-> 0, d |-> 0, p |-> 0, q |-> 0]
    [] path = "res/mismatch.json" ->
         [present |-> TRUE, wellformed |-> TRUE,
          n |-> 3233, e |-> 17, d |-> 157, p |-> 61, q |-> 53]

Consistent(doc) ==
  /\ doc.n = doc.p * doc.q
  /\ (doc.e * doc.d) % Lcm(doc.p - 1, doc.q - 1) = 1

Signer_from_keypair_path(path) ==
  LET doc == Wallet(path)
  IN IF ~doc.present THEN Err(KeyLoadError(path, "missing"))
     ELSE IF ~doc.wellformed THEN Err(KeyLoadError(path, "malformed"))
     ELSE IF ~Consistent(doc) THEN Err(KeyLoadError(path, "inconsistent"))
     ELSE Ok(<<[n |-> doc.n, e |-> doc.e, d |-> doc.d]>>)

Signers == {Signer_from_keypair_path(p).val[1] :
              p \in {q \in Paths : Signer_from_keypair_path(q).ok}}

Salts == {0, 1}

Signer_public_key(signer) == Ok(BigEndian(signer.n))

Signer_keypair_modulus(signer) == Ok(BigEndian(signer.n))

Signer_wallet_address(signer) == Ok(sha256(BigEndian(signer.n)))

\* a salted signature over message under the private key of modulus n
Signer_sign(signer, message, salt) ==
  Ok(<<[kind |-> "sig", b |-> salt, val |-> message,
        aux |-> BigEndian(signer.n)]>>)

verify(pub_key, message, signature) ==
  IF /\ Len(signature) = 1
     /\ signature[1].kind = "sig"
     /\ signature[1].aux = pub_key
     /\ signature[1].val = message
  THEN Ok(<<>>)
  ELSE Err(VerifyError)

(***************************************************************************)
(* Option<Box<Signer>>                                                     *)
(***************************************************************************)
None == <<>>
Some(signer) == <<signer>>

(***************************************************************************)
(* Provider                                                                *)
(***************************************************************************)
Provider_new(signer) == [signer |-> signer]

Provider_default == [signer |-> None]

\* mutant: a failed key load is swallowed and a keyless Provider returned
Provider_from_keypair_path_keyless(keypair_path) ==
  LET signer == Signer_from_keypair_path(keypair_path)
  IN IF ~signer.ok THEN Ok(<<Provider_new(None)>>)
     ELSE Ok(<<Provider_new(Some(signer.val[1]))>>)

Provider_from_keypair_path(keypair_path) ==
  LET signer == Signer_from_keypair_path(keypair_path)
  IN IF ~signer.ok THEN Err(signer.err)
     ELSE Ok(<<Provider_new(Some(signer.val[1]))>>)

\* mutant: the operation takes the Signer out of the Provider
\* (`self.signer.take()` on a `&mut self` receiver)
SharedBorrow_take(self) == [signer |-> None]

\* Every operation takes `&self`: the Provider after the call is the
\* Provider before it.
SharedBorrow(self) == self

\* mutant: the item is flattened to its bytes and hashed as one Blob
RECURSIVE Flatten(_)
Flatten(item) ==
  IF item.tag = "Blob" THEN item.bytes
  ELSE IF item.items = <<>> THEN <<>>
  ELSE Flatten(Head(item.items)) \o Flatten(List(Tail(item.items)))

Provider_deep_hash_flat(self, deep_hash_item) ==
  deep_hash(Blob(Flatten(deep_hash_item)))

Provider_deep_hash(self, deep_hash_item) == deep_hash(deep_hash_item)

\* mutant: the message is hashed once more before it is signed
Provider_sign_prehashed(self, message, salt) ==
  IF self.signer # None
  THEN Signer_sign(self.signer[1], sha256(message), salt)
  ELSE Err(NoneError)

Provider_sign(self, message, salt) ==
  IF self.signer # None
  THEN Signer_sign(self.signer[1], message, salt)
  ELSE Err(NoneError)

\* mutant: a keyed Provider mixes its modulus into the digest
Provider_hash_sha256_keyed(self, message) ==
  IF self.signer # None
  THEN sha256(BigEndian(self.signer[1].n) \o message)
  ELSE sha256(message)

Provider_hash_sha256(self, message) == sha256(message)

\* mutant: the accessor delegates to the wrong Signer method
Provider_keypair_modulus_address(self) ==
  IF self.signer # None
  THEN Signer_wallet_address(self.signer[1])
  ELSE Err(NoneError)

Provider_keypair_modulus(self) ==
  IF self.signer # None
  THEN Signer_keypair_modulus(self.signer[1])
  ELSE Err(NoneError)

\* mutant: without a key an all-zero address is returned instead of an error
Provider_wallet_address_zero(self) ==
  IF self.signer # None
  THEN Signer_wallet_address(self.signer[1])
  ELSE Ok([i \in 1..Sha256Len |-> Byte(0)])

Provider_wallet_address(self) ==
  IF self.signer # None
  THEN Signer_wallet_address(self.signer[1])
  ELSE Err(NoneError)

\* mutant: the public key is answered with the wallet address
Provider_public_key_address(self) ==
  IF self.signer # None
  THEN Signer_wallet_address(self.signer[1])
  ELSE Err(NoneError)

Provider_public_key(self) ==
  IF self.signer # None
  THEN Signer_public_key(self.signer[1])
  ELSE Err(NoneError)

\* The body of tests::test_sign_verify after the Provider is built:
\* sign(message)?, public_key()?, verify(pubk, message, signature).
sign_verify(self, message, salt) ==
  LET signature == Provider_sign(self, message, salt)
      pubk == Provider_public_key(self)
  IN IF ~signature.ok THEN Err(signature.err)
     ELSE IF ~pubk.ok THEN Err(pubk.err)
     ELSE verify(pubk.val, message, signature.val)

(***************************************************************************)
(* Inputs                                                                  *)
(***************************************************************************)
ByteVals == {0, 255}

RECURSIVE SeqsUpTo(_, _)
SeqsUpTo(S, n) ==
  IF n = 0 THEN {<<>>}
  ELSE LET shorter == SeqsUpTo(S, n - 1)
       IN shorter \cup {Append(s, x) : s \in shorter, x \in S}

Messages == {Bytes(s) : s \in SeqsUpTo(ByteVals, MaxBlobLen)}

Blobs == {Blob(m) : m \in Messages}

ChildBlobs == {Blob(Bytes(s)) : s \in SeqsUpTo(ByteVals, MaxChildLen)}

FlatLists == {List(xs) : xs \in SeqsUpTo(ChildBlobs, MaxListLen)}

InnerItems == {Blob(<<>>), Blob(Bytes(<<0>>)), List(<<>>), List(<<Blob(<<>>)>>)}

NestedLists == {List(xs) : xs \in SeqsUpTo(InnerItems, MaxListLen)}

Items == Blobs \cup FlatLists \cup NestedLists

KeyBoundOps == {"sign", "keypair_modulus", "wallet_address", "public_key"}
HashOps == {"deep_hash", "hash_sha256"}
Getters == {"keypair_modulus", "wallet_address", "public_key"}
Counted == {"wallet_address", "public_key"}

\* a few inputs, for the runs whose subject is not the hashing itself
FewItems == {Blob(Bytes(<<0>>)), List(<<Blob(<<>>), Blob(Bytes(<<255>>))>>)}
FewMessages == {<<>>, Bytes(<<255>>)}

Contexts == 1..NumContexts

(***************************************************************************)
(* State                                                                   *)
(***************************************************************************)
VARIABLES
  provider,   \* <<>> while no Provider exists, else <<the Provider>>
  ctor,       \* the last constructor call and what it returned
  last,       \* the last completed operation: its inputs and its result
  returned,   \* per getter, the set of results it has returned so far
  ncalls,     \* per counted getter, the number of completed calls (saturating)
  ctx         \* per execution context, its operation in progress

vars == <<provider, ctor, last, returned, ncalls, ctx>>

NoItem == Blob(<<>>)

NoCall == [op |-> "", item |-> NoItem, msg |-> <<>>, salt |-> 0, ret |-> Ok(<<>>)]

Idle == [pc |-> "idle", op |-> "", item |-> NoItem, msg |-> <<>>, salt |-> 0,
         signer |-> None, ret |-> Ok(<<>>)]

Init ==
  /\ provider = <<>>
  /\ ctor = [via |-> "", path |-> "", signer |-> None, ret |-> Err(<<>>)]
  /\ last = NoCall
  /\ returned = [g \in Getters |-> {}]
  /\ ncalls = [g \in Counted |-> 0]
  /\ ctx = [c \in Contexts |-> Idle]

(***************************************************************************)
(* Construction                                                            *)
(***************************************************************************)
New(signer) ==
  /\ provider = <<>>
  /\ provider' = <<Provider_new(signer)>>
  /\ ctor' = [via |-> "new", path |-> "", signer |-> signer, ret |-> Ok(provider')]
  /\ UNCHANGED <<last, returned, ncalls, ctx>>

Default ==
  /\ provider = <<>>
  /\ provider' = <<Provider_default>>
  /\ ctor' = [via |-> "default", path |-> "", signer |-> None, ret |-> Ok(provider')]
  /\ UNCHANGED <<last, returned, ncalls, ctx>>

FromKeypairPath(path) ==
  /\ provider = <<>>
  /\ LET r == Provider_from_keypair_path(path)
     IN /\ provider' = r.val
        /\ ctor' = [via |-> "from_keypair_path", path |-> path, signer |-> None,
                   ret |-> r]
  /\ UNCHANGED <<last, returned, ncalls, ctx>>

Construct ==
  \/ \E s \in {None} \cup {Some(x) : x \in Signers} : New(s)
  \/ Default
  \/ \E p \in Paths : FromKeypairPath(p)

(***************************************************************************)
(* Operations, called one at a time                                        *)
(***************************************************************************)
Bump(n) == IF n < MaxCalls THEN n + 1 ELSE n

Complete(op, item, msg, salt, ret) ==
  /\ last' = [op |-> op, item |-> item, msg |-> msg, salt |-> salt, ret |-> ret]
  /\ provider' = <<SharedBorrow(provider[1])>>
  /\ returned' = IF op \in Getters
                  THEN [returned EXCEPT ![op] = @ \cup {ret}]
                  ELSE returned
  /\ ncalls' = IF op \in Counted
                THEN [ncalls EXCEPT ![op] = Bump(@)]
                ELSE ncalls
  /\ UNCHANGED <<ctor, ctx>>

DeepHash(item) ==
  /\ provider # <<>>
  /\ Complete("deep_hash", item, <<>>, 0, Ok(Provider_deep_hash(provider[1], item)))

Sign(message, salt) ==
  /\ provider # <<>>
  /\ Complete("sign", NoItem, message, salt, Provider_sign(provider[1], message, salt))

HashSha256(message) ==
  /\ provider # <<>>
  /\ Complete("hash_sha256", NoItem, message, 0,
              Ok(Provider_hash_sha256(provider[1], message)))

KeypairModulus ==
  /\ provider # <<>>
  /\ Complete("keypair_modulus", NoItem, <<>>, 0, Provider_keypair_modulus(provider[1]))

WalletAddress ==
  /\ provider # <<>>
  /\ Complete("wallet_address", NoItem, <<>>, 0, Provider_wallet_address(provider[1]))

PublicKey ==
  /\ provider # <<>>
  /\ Complete("public_key", NoItem, <<>>, 0, Provider_public_key(provider[1]))

SignVerify(message, salt) ==
  /\ provider # <<>>
  /\ Complete("sign_verify", NoItem, message, salt,
              sign_verify(provider[1], message, salt))

Next ==
  \/ Construct
  \/ \E i \in FewItems : DeepHash(i)
  \/ \E m \in Messages, s \in Salts : Sign(m, s)
  \/ \E m \in FewMessages : HashSha256(m)
  \/ KeypairModulus
  \/ WalletAddress
  \/ PublicKey
  \/ \E m \in Messages, s \in Salts : SignVerify(m, s)

Spec == Init /\ [][Next]_vars

(***************************************************************************)
(* The hashing operations alone, over all the items and messages.          *)
(***************************************************************************)
NextHash ==
  \/ Construct
  \/ \E i \in Items : DeepHash(i)
  \/ \E m \in Messages : HashSha256(m)

SpecHash == Init /\ [][NextHash]_vars

(***************************************************************************)
(* Operations called from several execution contexts on one Provider.      *)
(* A key-bound operation first matches on `&self.signer` and then runs     *)
(* the branch it chose; the contexts interleave between the two steps.     *)
(***************************************************************************)
Begin(c, op, item, msg, salt) ==
  /\ provider # <<>>
  /\ ctx[c].pc \in {"idle", "done"}
  /\ ctx' = [ctx EXCEPT ![c] = [pc |-> "called", op |-> op, item |-> item,
                                msg |-> msg, salt |-> salt, signer |-> None,
                                ret |-> Ok(<<>>)]]
  /\ UNCHANGED <<provider, ctor, last, returned, ncalls>>

Match(c) ==
  /\ ctx[c].pc = "called"
  /\ ctx[c].op \in KeyBoundOps
  /\ ctx' = [ctx EXCEPT ![c].pc = "matched", ![c].signer = provider[1].signer]
  /\ provider' = <<SharedBorrow(provider[1])>>
  /\ UNCHANGED <<ctor, last, returned, ncalls>>

Outcome(self, call) ==
  CASE call.op = "deep_hash" -> Ok(Provider_deep_hash(self, call.item))
    [] call.op = "hash_sha256" -> Ok(Provider_hash_sha256(self, call.msg))
    [] call.op = "sign" -> Provider_sign(self, call.msg, call.salt)
    [] call.op = "keypair_modulus" -> Provider_keypair_modulus(self)
    [] call.op = "wallet_address" -> Provider_wallet_address(self)
    [] call.op = "public_key" -> Provider_public_key(self)

FinishKeyBound(c) ==
  /\ ctx[c].pc = "matched"
  /\ ctx' = [ctx EXCEPT ![c].pc = "done",
                        ![c].ret = Outcome([signer |-> ctx[c].signer], ctx[c])]
  /\ UNCHANGED <<provider, ctor, last, returned, ncalls>>

FinishHash(c) ==
  /\ ctx[c].pc = "called"
  /\ ctx[c].op \in HashOps
  /\ ctx' = [ctx EXCEPT ![c].pc = "done",
                        ![c].ret = Outcome(provider[1], ctx[c])]
  /\ provider' = <<SharedBorrow(provider[1])>>
  /\ UNCHANGED <<ctor, last, returned, ncalls>>

NextConc ==
  \/ Construct
  \/ \E c \in Contexts, i \in FewItems : Begin(c, "deep_hash", i, <<>>, 0)
  \/ \E c \in Contexts, m \in FewMessages : Begin(c, "hash_sha256", NoItem, m, 0)
  \/ \E c \in Contexts, m \in FewMessages, s \in Salts :
       Begin(c, "sign", NoItem, m, s)
  \/ \E c \in Contexts, g \in Getters : Begin(c, g, NoItem, <<>>, 0)
  \/ \E c \in Contexts : Match(c)
  \/ \E c \in Contexts : FinishKeyBound(c)
  \/ \E c \in Contexts : FinishHash(c)

SpecConc == Init /\ [][NextConc]_vars

(***************************************************************************)
(* Properties                                                              *)
(***************************************************************************)
Keyless == provider # <<>> /\ provider[1].signer = None
Keyed == provider # <<>> /\ provider[1].signer # None

AllProviders == {Provider_new(None)} \cup {Provider_new(Some(s)) : s \in Signers}

\* the same call made directly on a Signer
Direct(signer, call) ==
  CASE call.op = "sign" -> Signer_sign(signer, call.msg, call.salt)
    [] call.op = "keypair_modulus" -> Signer_keypair_modulus(signer)
    [] call.op = "wallet_address" -> Signer_wallet_address(signer)
    [] call.op = "public_key" -> Signer_public_key(signer)

\* C1: on a Provider that holds no Signer, sign, public_key,
\* keypair_modulus and wallet_address each return the no-key error and no
\* value, whatever the message and whatever was called before.
C1_KeylessFails ==
  (Keyless /\ last.op \in KeyBoundOps) =>
    /\ last.ret = Err(NoneError)
    /\ ~last.ret.ok
    /\ last.ret.val = <<>>

C1_Witness ==
  /\ Keyless
  /\ last.op = "wallet_address"
  /\ returned["public_key"] # {}
  /\ returned["keypair_modulus"] # {}

\* C2: on a Provider that holds a Signer, each key-bound operation succeeds
\* with exactly the result of the same call on the held Signer, and a
\* key-bound operation fails only when no Signer is held.
C2_KeyedMatchesSigner ==
  /\ (Keyed /\ last.op \in KeyBoundOps) =>
       /\ last.ret.ok
       /\ last.ret = Direct(provider[1].signer[1], last)
  /\ (provider # <<>> /\ last.op \in KeyBoundOps /\ ~last.ret.ok) => Keyless

C2_Witness ==
  /\ Keyed
  /\ last.op = "public_key"
  /\ last.ret = Ok(Bytes(<<12, 161>>))

\* C3: deep_hash and hash_sha256 always succeed and depend on the input
\* only: every Provider, keyless or keyed, returns the same 48-byte deep
\* hash for the item and the same 32-byte digest for the message.
C3_HashingIgnoresKey ==
  /\ last.op = "deep_hash" =>
       /\ last.ret.ok
       /\ ByteLen(last.ret.val) = Sha384Len
       /\ \A p \in AllProviders : Provider_deep_hash(p, last.item) = last.ret.val
  /\ last.op = "hash_sha256" =>
       /\ last.ret.ok
       /\ ByteLen(last.ret.val) = Sha256Len
       /\ \A p \in AllProviders : Provider_hash_sha256(p, last.msg) = last.ret.val

C3_Witness ==
  /\ Keyed
  /\ last.op = "hash_sha256"
  /\ last.msg # <<>>

\* C4: for a Provider built from a valid keypair and any message, the
\* signature returned by sign verifies under the key returned by public_key.
C4_SignThenVerify ==
  (Keyed /\ last.op = "sign_verify") => last.ret = Ok(<<>>)

C4_Witness ==
  /\ ctor.via = "from_keypair_path"
  /\ ctor.path = "res/test_wallet.json"
  /\ Keyed
  /\ last.op = "sign_verify"
  /\ last.msg # <<>>
  /\ last.ret.ok

\* C6: no operation changes the Provider: it is still the Provider its
\* constructor returned, and public_key and wallet_address have returned
\* one and the same value on every call so far.
C6_ProviderUnchanged ==
  provider # <<>> =>
    /\ provider = ctor.ret.val
    /\ \A g \in Counted : Cardinality(returned[g]) <= 1

C6_Witness ==
  /\ Keyed
  /\ ncalls["public_key"] >= 2
  /\ ncalls["wallet_address"] >= 2
  /\ last.op = "sign"

\* C7: under every interleaving of calls from several execution contexts,
\* each completed call has the outcome it has when run alone on the
\* Provider as constructed; on a keyed Provider no key-bound call sees a
\* missing key, and no hashing call fails.
C7_InterleavingsAgree ==
  \A c \in Contexts :
    ctx[c].pc = "done" =>
      /\ ctx[c].ret = Outcome(ctor.ret.val[1], ctx[c])
      /\ (ctor.ret.val[1].signer # None) => ctx[c].ret.ok
      /\ ctx[c].op \in HashOps => ctx[c].ret.ok

C7_Witness ==
  /\ Keyed
  /\ \E c, d \in Contexts :
       /\ c # d
       /\ ctx[c].pc = "done" /\ ctx[c].op = "sign"
       /\ ctx[d].pc = "matched" /\ ctx[d].op = "wallet_address"

\* C8: for distinct byte sequences a and b, the deep hash of
\* List([Blob(a), Blob(b)]) differs from that of List([Blob(b), Blob(a)]);
\* the list digest starts from H("list" ++ decimal(n)) and folds
\* acc = H(acc ++ deep_hash(child)) over the children in order.
IsBlobPair(item) ==
  /\ item.tag = "List"
  /\ Len(item.items) = 2
  /\ item.items[1].tag = "Blob"
  /\ item.items[2].tag = "Blob"
  /\ item.items[1].bytes # item.items[2].bytes

Swapped(item) == List(<<item.items[2], item.items[1]>>)

C8_ListOrderSensitive ==
  (provider # <<>> /\ last.op = "deep_hash" /\ IsBlobPair(last.item)) =>
    /\ last.ret.val # Provider_deep_hash(provider[1], Swapped(last.item))
    /\ last.ret.val =
         sha384(sha384(sha384(AsciiList \o Decimal(2))
                       \o deep_hash(last.item.items[1]))
                \o deep_hash(last.item.items[2]))

C8_Witness ==
  /\ last.op = "deep_hash"
  /\ last.item = List(<<Blob(<<>>), Blob(Bytes(<<0>>))>>)

\* C9: on a keyed Provider keypair_modulus and public_key return the same
\* value on every call; on a keyless Provider both fail with the same
\* no-key error.
C9_ModulusIsPublicKey ==
  LET both == returned["keypair_modulus"] \cup returned["public_key"]
  IN /\ Cardinality(both) <= 1
     /\ Keyed => \A r \in both : r.ok
     /\ Keyless => \A r \in both : r = Err(NoneError)

C9_Witness ==
  /\ Keyed
  /\ returned["keypair_modulus"] # {}
  /\ returned["public_key"] # {}

\* C10: from_keypair_path returns the Signer's key-load error and no
\* Provider when the Signer cannot be built, and otherwise a Provider
\* holding that Signer; Provider::new(None) and the default are keyless.
C10_FromKeypairPathAllOrNothing ==
  /\ ctor.via = "from_keypair_path" =>
       LET signer == Signer_from_keypair_path(ctor.path)
       IN IF signer.ok
          THEN /\ ctor.ret = Ok(<<[signer |-> Some(signer.val[1])]>>)
               /\ Keyed
          ELSE /\ ctor.ret = Err(signer.err)
               /\ provider = <<>>
  /\ (ctor.via = "default" \/ (ctor.via = "new" /\ ctor.signer = None)) =>
       Keyless

C10_Witness ==
  /\ ctor.via = "from_keypair_path"
  /\ ctor.path = "res/mismatch.json"
  /\ ~ctor.ret.ok
  /\ provider = <<>>

====
